---- MODULE Spec2Model ----
(***************************************************************************)
(* DataFrameChecker of pandas_dtype_efficiency.py: a checker is built over *)
(* a pandas DataFrame, analyses its columns for lower-memory dtypes and    *)
(* casts the DataFrame to them.                                            *)
(*                                                                         *)
(* A DataFrame is a sequence of columns [name, dtype, values].  The values *)
(* of a column are                                                         *)
(*   int64    two's complement words <<h, m, l>> standing for              *)
(*            h * 2^32 + m * 2^16 + l, h a signed 32-bit word and m, l in  *)
(*            0 .. 65535 (the model checker's integers are 32 bits wide),  *)
(*   int8/16/32  integers in the range of the width,                       *)
(*   float64/32/16  [inf, val]: the integer-valued float val, or the       *)
(*            infinity of sign val,                                        *)
(*   object   strings, or NA for a missing value (None/NaN),               *)
(*   category [categories, codes],                                         *)
(*   bool     booleans.                                                    *)
(***************************************************************************)
EXTENDS Integers, Sequences, FiniteSets, TLC

VARIABLES
    df,                             \* the caller's DataFrame
    exists,                         \* the caller holds a DataFrameChecker
    _all_possible_improvements,     \* self._all_possible_improvements
    _dataframe_has_been_analysed,   \* self._dataframe_has_been_analysed
    _df,                            \* self._df
    _categorical_threshold,         \* self._categorical_threshold
    _columns_by_type,               \* self._columns_by_type
    _float_size,                    \* self._float_size
    outcome,                        \* the last call: what was called, how it ended
    lower_memory_df,                \* the DataFrame the last call returned, if any
    possible_dtypes                 \* the dict the last call returned, if any

self == <<_all_possible_improvements, _dataframe_has_been_analysed, _df,
          _categorical_threshold, _columns_by_type, _float_size>>

vars == <<df, exists, _all_possible_improvements, _dataframe_has_been_analysed, _df,
          _categorical_threshold, _columns_by_type, _float_size,
          outcome, lower_memory_df, possible_dtypes>>

\* Rows of every DataFrame.
NRows == 2

(***************************************************************************)
(* int64 values                                                            *)
(***************************************************************************)
Word == 2^16

MinInt32 == -2147483647 - 1

\* The int64 of an integer n of at most 32 bits (sign extension).
FromInt(n) == <<IF n < 0 THEN -1 ELSE 0, (n \div Word) % Word, n % Word>>

\* a <= b on int64 values.
Le64(a, b) ==
    \/ a[1] < b[1]
    \/ a[1] = b[1] /\ a[2] < b[2]
    \/ a[1] = b[1] /\ a[2] = b[2] /\ a[3] <= b[3]

RECURSIVE SeriesMin(_, _)
\* Series.min() of an int64 column: the least of the first n values.
SeriesMin(values, n) ==
    IF n = 1 THEN values[1]
    ELSE LET m == SeriesMin(values, n - 1)
         IN  IF Le64(values[n], m) THEN values[n] ELSE m

RECURSIVE SeriesMax(_, _)
\* Series.max() of an int64 column: the greatest of the first n values.
SeriesMax(values, n) ==
    IF n = 1 THEN values[1]
    ELSE LET m == SeriesMax(values, n - 1)
         IN  IF Le64(m, values[n]) THEN values[n] ELSE m

(***************************************************************************)
(* dicts                                                                   *)
(***************************************************************************)
EmptyDict == [k \in {} |-> ""]

\* dict.update: the entries of other are added to d, other's value winning.
update(d, other) ==
    [k \in DOMAIN d \cup DOMAIN other |-> IF k \in DOMAIN other THEN other[k] ELSE d[k]]

\* d with d[k] = v.
setitem(d, k, v) == update(d, [x \in {k} |-> v])

\* dict.get(k) of a dict of lists, None read as the empty list.
get(d, k) == IF k \in DOMAIN d THEN d[k] ELSE <<>>

\* df[col]: the column named col.
Column(frame, col) == frame[CHOOSE j \in 1..Len(frame) : frame[j].name = col]

(***************************************************************************)
(* _separate_dtypes                                                        *)
(***************************************************************************)
\* The numpy dtype DataFrame.select_dtypes(include=data_type) selects.
SelectedDtype == [float |-> "float64", int |-> "int64", object |-> "object"]

RECURSIVE select_dtypes(_, _, _)
\* list(df.select_dtypes(include=data_type).columns), over the first n columns.
select_dtypes(frame, data_type, n) ==
    IF n = 0 THEN <<>>
    ELSE LET rest == select_dtypes(frame, data_type, n - 1)
         IN  IF frame[n].dtype = SelectedDtype[data_type]
             THEN Append(rest, frame[n].name) ELSE rest

_separate_dtypes(frame) ==
    LET relevant_columns(data_type) == select_dtypes(frame, data_type, Len(frame))
    IN  [data_type \in {t \in {"float", "int", "object"} : relevant_columns(t) # <<>>}
            |-> relevant_columns(data_type)]

(***************************************************************************)
(* _check_if_integer_sizes_can_be_reduced                                  *)
(***************************************************************************)
\* As integer_ranges, the maxima those of the unsigned types.
integer_ranges_unsigned_max ==
    [s8_min  |-> FromInt(-128),     s8_max  |-> FromInt(255),
     s16_min |-> FromInt(-32768),   s16_max |-> FromInt(65535),
     s32_min |-> FromInt(MinInt32), s32_max |-> <<0, Word - 1, Word - 1>>]

integer_ranges ==
    [s8_min  |-> FromInt(-128),     s8_max  |-> FromInt(127),
     s16_min |-> FromInt(-32768),   s16_max |-> FromInt(32767),
     s32_min |-> FromInt(MinInt32), s32_max |-> FromInt(2147483647)]

range_min(int_size) ==
    CASE int_size = 8  -> integer_ranges.s8_min
      [] int_size = 16 -> integer_ranges.s16_min
      [] int_size = 32 -> integer_ranges.s32_min

range_max(int_size) ==
    CASE int_size = 8  -> integer_ranges.s8_max
      [] int_size = 16 -> integer_ranges.s16_max
      [] int_size = 32 -> integer_ranges.s32_max

integer_size_to_numpy_type(int_size) ==
    CASE int_size = 8  -> "int8"
      [] int_size = 16 -> "int16"
      [] int_size = 32 -> "int32"

\* As fits, the minimum of the column not looked at.
fits_max_only(min_val, max_val, int_size) == Le64(max_val, range_max(int_size))

\* The test of line 110.
fits(min_val, max_val, int_size) ==
    Le64(range_min(int_size), min_val) /\ Le64(max_val, range_max(int_size))

RECURSIVE int_size_loop(_, _, _, _, _)
\* for int_size in [8, 16, 32], from the i-th size on: the first size that fits is
\* recorded and the loop is left.
int_size_loop(possible_improvements, col, min_val, max_val, i) ==
    LET sizes == <<8, 16, 32>>
    IN  IF i > Len(sizes) THEN possible_improvements
        ELSE IF fits(min_val, max_val, sizes[i])
             THEN setitem(possible_improvements, col, integer_size_to_numpy_type(sizes[i]))
             ELSE int_size_loop(possible_improvements, col, min_val, max_val, i + 1)

RECURSIVE int_columns_loop(_, _, _)
\* for col in int_columns, over the first n of them.
int_columns_loop(frame, int_columns, n) ==
    IF n = 0 THEN EmptyDict
    ELSE LET col     == int_columns[n]
             values  == Column(frame, col).values
             min_val == SeriesMin(values, Len(values))
             max_val == SeriesMax(values, Len(values))
         IN  int_size_loop(int_columns_loop(frame, int_columns, n - 1),
                           col, min_val, max_val, 1)

_check_if_integer_sizes_can_be_reduced(frame, columns_by_type) ==
    LET int_columns == get(columns_by_type, "int")
    IN  IF int_columns = <<>> THEN EmptyDict
        ELSE int_columns_loop(frame, int_columns, Len(int_columns))

(***************************************************************************)
(* _check_if_strings_could_be_categorical                                  *)
(***************************************************************************)
\* A missing value of an object column.
NA == "<NA>"

\* Series.nunique(): the number of distinct values, missing values not counted.
nunique(values) == Cardinality({values[r] : r \in 1..Len(values)} \ {NA})

\* As within_threshold, the comparison strict.
below_threshold(distinct, categorical_threshold) == distinct < categorical_threshold

\* The test of line 136.
within_threshold(distinct, categorical_threshold) == distinct <= categorical_threshold

RECURSIVE string_columns_loop(_, _, _, _)
\* for col in string_columns, over the first n of them.
string_columns_loop(frame, string_columns, categorical_threshold, n) ==
    IF n = 0 THEN EmptyDict
    ELSE LET col  == string_columns[n]
             rest == string_columns_loop(frame, string_columns, categorical_threshold, n - 1)
         IN  IF within_threshold(nunique(Column(frame, col).values), categorical_threshold)
             THEN setitem(rest, col, "category") ELSE rest

_check_if_strings_could_be_categorical(frame, columns_by_type, categorical_threshold) ==
    LET string_columns == get(columns_by_type, "object")
    IN  IF string_columns = <<>> THEN EmptyDict
        ELSE string_columns_loop(frame, string_columns, categorical_threshold,
                                 Len(string_columns))

(***************************************************************************)
(* _flag_float_column_improvements                                         *)
(***************************************************************************)
\* As float_size_to_numpy_type, 32 mapped to the type of 16.
float_size_to_float16(float_size) ==
    CASE float_size = 16 -> "float16"
      [] float_size = 32 -> "float16"

float_size_to_numpy_type(float_size) ==
    CASE float_size = 16 -> "float16"
      [] float_size = 32 -> "float32"

RECURSIVE float_columns_loop(_, _, _)
\* for col in float_columns, over the first n of them.
float_columns_loop(float_columns, float_size, n) ==
    IF n = 0 THEN EmptyDict
    ELSE setitem(float_columns_loop(float_columns, float_size, n - 1),
                 float_columns[n], float_size_to_numpy_type(float_size))

_flag_float_column_improvements(columns_by_type, float_size) ==
    IF float_size = 64 THEN EmptyDict
    ELSE LET float_columns == get(columns_by_type, "float")
         IN  IF float_columns = <<>> THEN EmptyDict
             ELSE float_columns_loop(float_columns, float_size, Len(float_columns))

(***************************************************************************)
(* DataFrame.astype                                                        *)
(***************************************************************************)
\* numpy's cast of an int64 to a signed integer of the given width: the low bits
\* of the value, read as two's complement.
astype_int(v, bits) ==
    CASE bits = 8  -> LET b == v[3] % 256 IN IF b >= 128 THEN b - 256 ELSE b
      [] bits = 16 -> IF v[3] >= 32768 THEN v[3] - Word ELSE v[3]
      [] bits = 32 -> (IF v[2] >= 32768 THEN v[2] - Word ELSE v[2]) * Word + v[3]

RECURSIVE BitLength(_)
\* The number of bits of a natural number.
BitLength(a) == IF a = 0 THEN 0 ELSE 1 + BitLength(a \div 2)

\* The natural number a rounded to a significand of p bits, ties to even.
round_to_precision(a, p) ==
    LET k    == IF BitLength(a) > p THEN BitLength(a) - p ELSE 0
        ulp  == 2^k
        q    == a \div ulp
        r    == a % ulp
        up   == k > 0 /\ (2 * r > ulp \/ (2 * r = ulp /\ q % 2 = 1))
    IN  (IF up THEN q + 1 ELSE q) * ulp

Fin(n) == [inf |-> FALSE, val |-> n]

Inf(sign) == [inf |-> TRUE, val |-> sign]

\* The significand bits and the greatest finite integer value of a float width.
float_precision(bits) == IF bits = 16 THEN 11 ELSE 24

float_overflows(a, bits) == bits = 16 /\ a > 65504

\* numpy's cast of a float64 to a float of the given width.
astype_float(x, bits) ==
    IF x.inf THEN x
    ELSE LET sign == IF x.val < 0 THEN -1 ELSE 1
             a    == round_to_precision(sign * x.val, float_precision(bits))
         IN  IF float_overflows(a, bits) THEN Inf(sign) ELSE Fin(sign * a)

\* The strings of the model, in sort order.
StrOrder == <<"x", "y", "z">>

RECURSIVE sorted_unique(_, _)
\* The strings of a set, sorted: those among the first n of StrOrder.
sorted_unique(present, n) ==
    IF n = 0 THEN <<>>
    ELSE LET rest == sorted_unique(present, n - 1)
         IN  IF StrOrder[n] \in present THEN Append(rest, StrOrder[n]) ELSE rest

\* The cast of an object column to category: the sorted distinct values that are
\* not missing, and for each row the 0-based code of its value, -1 when missing.
astype_category(values) ==
    LET categories == sorted_unique({values[r] : r \in 1..Len(values)} \ {NA},
                                    Len(StrOrder))
        code(s)    == IF s = NA THEN -1
                      ELSE (CHOOSE i \in 1..Len(categories) : categories[i] = s) - 1
    IN  [categories |-> categories, codes |-> [r \in 1..Len(values) |-> code(values[r])]]

\* Series.astype(dtype) of one column.
astype_column(column, dtype) ==
    LET cast(v) ==
            CASE dtype = "int8"    -> astype_int(v, 8)
              [] dtype = "int16"   -> astype_int(v, 16)
              [] dtype = "int32"   -> astype_int(v, 32)
              [] dtype = "float16" -> astype_float(v, 16)
              [] dtype = "float32" -> astype_float(v, 32)
    IN  [name   |-> column.name,
         dtype  |-> dtype,
         values |-> IF dtype = "category" THEN astype_category(column.values)
                    ELSE [r \in 1..Len(column.values) |-> cast(column.values[r])]]

\* As astype, nothing cast.
astype_nothing(frame, dtype) == frame

\* DataFrame.astype(dtype=dict): a new DataFrame, the columns that are keys of the
\* dict cast, the others as they are.
astype(frame, dtype) ==
    [j \in 1..Len(frame) |->
        IF frame[j].name \in DOMAIN dtype
        THEN astype_column(frame[j], dtype[frame[j].name]) ELSE frame[j]]

(***************************************************************************)
(* The DataFrames a checker is built over                                  *)
(***************************************************************************)
MinInt64 == <<MinInt32, 0, 0>>

MaxInt64 == <<2147483647, Word - 1, Word - 1>>

\* int64 values at and next to the limits of the 8, 16 and 32 bit ranges.
IntSamples ==
    {FromInt(-128), FromInt(-129), FromInt(127), FromInt(128),
     FromInt(-32768), FromInt(-32769), FromInt(32767), FromInt(32768),
     FromInt(MinInt32), <<-1, 32767, Word - 1>>, FromInt(2147483647), <<0, 32768, 0>>}

\* Floats that are exact in float16, in float32 only, and in float64 only.
FloatSamples == {Fin(-1), Fin(2049), Fin(16777217)}

ObjectSamples == {StrOrder[i] : i \in 1..Len(StrOrder)} \cup {NA}

Samples(dtype) ==
    CASE dtype = "int64"   -> IntSamples
      [] dtype = "float64" -> FloatSamples
      [] dtype = "object"  -> ObjectSamples
      [] dtype = "bool"    -> BOOLEAN

\* A column of the shape of the test data: lo first, hi last, mid between.
Spread(lo, mid, hi) ==
    [r \in 1..NRows |-> IF r = 1 THEN lo ELSE IF r = NRows THEN hi ELSE mid]

\* The column of the i-th of the strings, cyclically.
Cycle(n) == [r \in 1..NRows |-> StrOrder[((r - 1) % n) + 1]]

Col(name, dtype, values) == [name |-> name, dtype |-> dtype, values |-> values]

\* MOCK_DF of the tests, at NRows rows; its floats -0.5, 0, 0.5 are taken as -1, 0, 1.
MOCK_DF ==
    <<Col("floats", "float64", Spread(Fin(-1), Fin(0), Fin(1))),
      Col("int_smaller_than_int8", "int64", Spread(FromInt(-128), FromInt(0), FromInt(127))),
      Col("int_smaller_than_int16", "int64", Spread(FromInt(-32768), FromInt(0), FromInt(32767))),
      Col("int_smaller_than_int32", "int64",
          Spread(FromInt(MinInt32), FromInt(0), FromInt(2147483647))),
      Col("int_smaller_than_int64", "int64", Spread(MinInt64, FromInt(0), MaxInt64)),
      Col("category_strings", "object", Cycle(2)),
      Col("varied_strings", "object", Cycle(Len(StrOrder))),
      Col("ineligible_column", "bool", Spread(TRUE, FALSE, FALSE))>>

\* MOCK_DF_NO_IMPROVEMENTS of the tests, at NRows rows.
MOCK_DF_NO_IMPROVEMENTS ==
    <<Col("bool_1", "bool", Spread(TRUE, FALSE, FALSE)),
      Col("bool_2", "bool", Spread(TRUE, FALSE, FALSE))>>

ColNames == <<"a", "b">>

Dtypes == {"int64", "float64", "object", "bool"}

\* The values of the column of MOCK_DF of a dtype.
Reference(dtype) ==
    CASE dtype = "int64"   -> MOCK_DF[2].values
      [] dtype = "float64" -> MOCK_DF[1].values
      [] dtype = "object"  -> MOCK_DF[6].values
      [] dtype = "bool"    -> MOCK_DF[8].values

\* The DataFrame of the columns ColNames[1..Len(dtypes)] of the given dtypes, the
\* k-th column of the given values and the others of the values of the test data.
SampleFrame(dtypes, k, values) ==
    [j \in 1..Len(dtypes) |->
        Col(ColNames[j], dtypes[j], IF j = k THEN values ELSE Reference(dtypes[j]))]

(***************************************************************************)
(* The calls of a caller                                                   *)
(***************************************************************************)
\* The float_size arguments of a caller: the valid ones and that of the tests.
FloatSizeArgs == {16, 32, 64, 99}

\* The categorical_threshold arguments of a caller.
ThresholdArgs == 1..NRows

ValueError == [exc |-> "ValueError",
               msg |-> "float_size must correspond to a numpy.float (one of 16, 32, or 64)"]

\* As NotAnalysedWarning, a ValueError.
NotAnalysedValueError ==
    [exc |-> "ValueError", msg |-> "DataFrame has not been analysed for improvements yet."]

NotAnalysedWarning ==
    [exc |-> "UserWarning", msg |-> "DataFrame has not been analysed for improvements yet."]

NoImprovementsWarning ==
    [exc |-> "UserWarning",
     msg |-> "No possible improvements have been found after analysing DataFrame."]

NoException == [exc |-> "None", msg |-> ""]

\* What is recorded of a call: the method, its float_size argument (0 when it has
\* none), the analysed flag it found, and the exception it raised.
Call(op, float_size, raised) ==
    [op |-> op, float_size |-> float_size,
     was_analysed |-> _dataframe_has_been_analysed, raised |-> raised]

Init ==
    /\ \/ df = MOCK_DF
       \/ df = MOCK_DF_NO_IMPROVEMENTS
       \/ \E n \in 1..Len(ColNames) : \E dtypes \in [1..n -> Dtypes] : \E k \in 1..n :
             \E values \in [1..NRows -> Samples(dtypes[k])] :
                df = SampleFrame(dtypes, k, values)
    /\ exists = FALSE
    /\ _all_possible_improvements = EmptyDict
    /\ _dataframe_has_been_analysed = FALSE
    /\ _df = <<>>
    /\ _categorical_threshold = 0
    /\ _columns_by_type = EmptyDict
    /\ _float_size = 0
    /\ outcome = [op |-> "", float_size |-> 0, was_analysed |-> FALSE, raised |-> NoException]
    /\ lower_memory_df = <<>>
    /\ possible_dtypes = EmptyDict

\* As __init__, float_size not validated.
init_without_validation(categorical_threshold, float_size) ==
    /\ ~exists
    /\ outcome' = Call("__init__", float_size, NoException)
    /\ exists' = TRUE
    /\ _all_possible_improvements' = EmptyDict
    /\ _dataframe_has_been_analysed' = FALSE
    /\ _df' = df
    /\ _categorical_threshold' = categorical_threshold
    /\ _columns_by_type' = _separate_dtypes(df)
    /\ _float_size' = float_size
    /\ UNCHANGED <<df, lower_memory_df, possible_dtypes>>

\* DataFrameChecker(df, categorical_threshold, float_size): the checker is the
\* caller's only if no exception leaves the constructor.
__init__(categorical_threshold, float_size) ==
    /\ ~exists
    /\ IF float_size \notin {16, 32, 64}
       THEN /\ outcome' = Call("__init__", float_size, ValueError)
            /\ UNCHANGED <<exists, _all_possible_improvements, _dataframe_has_been_analysed,
                           _df, _categorical_threshold, _columns_by_type, _float_size>>
       ELSE /\ outcome' = Call("__init__", float_size, NoException)
            /\ exists' = TRUE
            /\ _all_possible_improvements' = EmptyDict
            /\ _dataframe_has_been_analysed' = FALSE
            /\ _df' = df
            /\ _categorical_threshold' = categorical_threshold
            /\ _columns_by_type' = _separate_dtypes(df)
            /\ _float_size' = float_size
    /\ UNCHANGED <<df, lower_memory_df, possible_dtypes>>

\* As merged_improvements, the last update an assignment.
last_improvements_only(improvements, frame, columns_by_type, threshold, float_size) ==
    _check_if_strings_could_be_categorical(frame, columns_by_type, threshold)

\* The dict after the three updates of identify_possible_improvements.
merged_improvements(improvements, frame, columns_by_type, threshold, float_size) ==
    LET float_improvements == _flag_float_column_improvements(columns_by_type, float_size)
        integer_improvements == _check_if_integer_sizes_can_be_reduced(frame, columns_by_type)
        categorical_improvements ==
            _check_if_strings_could_be_categorical(frame, columns_by_type, threshold)
    IN  update(update(update(improvements, float_improvements),
                      integer_improvements),
               categorical_improvements)

identify_possible_improvements ==
    /\ exists
    /\ _all_possible_improvements' =
           merged_improvements(_all_possible_improvements, _df, _columns_by_type,
                               _categorical_threshold, _float_size)
    /\ _dataframe_has_been_analysed' = TRUE
    /\ outcome' = Call("identify_possible_improvements", 0, NoException)
    /\ lower_memory_df' = <<>>
    /\ possible_dtypes' = EmptyDict
    /\ UNCHANGED <<df, exists, _df, _categorical_threshold, _columns_by_type, _float_size>>

\* As cast_dataframe_to_lower_memory_version, the two checks in the other order.
cast_checking_improvements_first ==
    /\ exists
    /\ IF DOMAIN _all_possible_improvements = {}
       THEN /\ outcome' = Call("cast_dataframe_to_lower_memory_version", 0,
                               NoImprovementsWarning)
            /\ lower_memory_df' = <<>>
       ELSE IF ~_dataframe_has_been_analysed
       THEN /\ outcome' = Call("cast_dataframe_to_lower_memory_version", 0,
                               NotAnalysedWarning)
            /\ lower_memory_df' = <<>>
       ELSE /\ outcome' = Call("cast_dataframe_to_lower_memory_version", 0, NoException)
            /\ lower_memory_df' = astype(_df, _all_possible_improvements)
    /\ possible_dtypes' = EmptyDict
    /\ UNCHANGED <<df, exists, _all_possible_improvements, _dataframe_has_been_analysed,
                   _df, _categorical_threshold, _columns_by_type, _float_size>>

cast_dataframe_to_lower_memory_version ==
    /\ exists
    /\ IF ~_dataframe_has_been_analysed
       THEN /\ outcome' = Call("cast_dataframe_to_lower_memory_version", 0,
                               NotAnalysedWarning)
            /\ lower_memory_df' = <<>>
       ELSE IF DOMAIN _all_possible_improvements = {}
       THEN /\ outcome' = Call("cast_dataframe_to_lower_memory_version", 0,
                               NoImprovementsWarning)
            /\ lower_memory_df' = <<>>
       ELSE /\ outcome' = Call("cast_dataframe_to_lower_memory_version", 0, NoException)
            /\ lower_memory_df' = astype(_df, _all_possible_improvements)
    /\ possible_dtypes' = EmptyDict
    /\ UNCHANGED <<df, exists, _all_possible_improvements, _dataframe_has_been_analysed,
                   _df, _categorical_threshold, _columns_by_type, _float_size>>

\* As get_possible_dtypes, a DataFrame not yet analysed being analysed first.
get_possible_dtypes_analysing ==
    /\ exists
    /\ outcome' = Call("get_possible_dtypes", 0, NoException)
    /\ _all_possible_improvements' =
           merged_improvements(_all_possible_improvements, _df, _columns_by_type,
                               _categorical_threshold, _float_size)
    /\ _dataframe_has_been_analysed' = TRUE
    /\ possible_dtypes' = _all_possible_improvements'
    /\ lower_memory_df' = <<>>
    /\ UNCHANGED <<df, exists, _df, _categorical_threshold, _columns_by_type, _float_size>>

get_possible_dtypes ==
    /\ exists
    /\ outcome' = Call("get_possible_dtypes", 0, NoException)
    /\ possible_dtypes' = _all_possible_improvements
    /\ lower_memory_df' = <<>>
    /\ UNCHANGED <<df, exists, _all_possible_improvements, _dataframe_has_been_analysed,
                   _df, _categorical_threshold, _columns_by_type, _float_size>>

Next ==
    \/ \E categorical_threshold \in ThresholdArgs : \E float_size \in FloatSizeArgs :
          __init__(categorical_threshold, float_size)
    \/ identify_possible_improvements
    \/ cast_dataframe_to_lower_memory_version
    \/ get_possible_dtypes

Spec == Init /\ [][Next]_vars

(***************************************************************************)
(* Properties                                                              *)
(***************************************************************************)
Cast == "cast_dataframe_to_lower_memory_version"

Identify == "identify_possible_improvements"

\* The names of the columns of a DataFrame of a dtype.
ColumnsOf(frame, dtype) == {frame[j].name : j \in {i \in 1..Len(frame) : frame[i].dtype = dtype}}

\* The entries of a dict at the keys in a set.
Restrict(d, keys) == [k \in DOMAIN d \cap keys |-> d[k]]

\* The least and greatest values of the signed integers of a width.
SignedMin(bits) == FromInt(2^(bits - 2) * (-2))

SignedMax(bits) == FromInt((2^(bits - 2) - 1) * 2 + 1)

\* The widths among 8, 16, 32 whose signed range holds every value of a column.
FittingWidths(values) ==
    {bits \in {8, 16, 32} :
        \A r \in 1..Len(values) :
            Le64(SignedMin(bits), values[r]) /\ Le64(values[r], SignedMax(bits))}

Least(S) == CHOOSE x \in S : \A y \in S : x <= y

IntType(bits) == CASE bits = 8 -> "int8" [] bits = 16 -> "int16" [] bits = 32 -> "int32"

\* The number of distinct values of an object column that are not missing.
DistinctCount(values) ==
    Cardinality({s \in ObjectSamples \ {NA} : \E r \in 1..Len(values) : values[r] = s})

\* A category column read back as an object column.
CategoryToObject(cat) ==
    [r \in 1..Len(cat.codes) |->
        IF cat.codes[r] = -1 THEN NA ELSE cat.categories[cat.codes[r] + 1]]

\* C1: a cast of a checker never analysed raises the not-analysed UserWarning, also
\* when the dict of improvements is empty (it then always is); a cast of a checker
\* analysed with an empty dict raises the no-improvements UserWarning; neither
\* returns a DataFrame.
C1_CastRaisesUnlessAnalysedWithImprovements ==
    outcome.op = Cast =>
        /\ ~_dataframe_has_been_analysed =>
              outcome.raised = NotAnalysedWarning /\ lower_memory_df = <<>>
        /\ _dataframe_has_been_analysed /\ DOMAIN _all_possible_improvements = {} =>
              outcome.raised = NoImprovementsWarning /\ lower_memory_df = <<>>
        /\ ~outcome.was_analysed => ~_dataframe_has_been_analysed

\* A cast after an analysis that found nothing.
C1_Witness ==
    /\ outcome.op = Cast
    /\ _dataframe_has_been_analysed
    /\ DOMAIN _all_possible_improvements = {}
    /\ outcome.raised = NoImprovementsWarning

\* C2: the integer analyser gives an int64 column the type of the least width among
\* 8, 16, 32 whose signed range holds all its values, gives it no entry when there
\* is none, has no other keys and never the type int64; an analysis stores exactly
\* these entries for the int64 columns.
C2_IntegerColumnsGetTheLeastFittingWidth ==
    exists =>
        LET result == _check_if_integer_sizes_can_be_reduced(_df, _columns_by_type)
        IN  /\ DOMAIN result \subseteq ColumnsOf(_df, "int64")
            /\ \A j \in 1..Len(_df) :
                  _df[j].dtype = "int64" =>
                      LET widths == FittingWidths(_df[j].values)
                      IN  IF widths = {} THEN _df[j].name \notin DOMAIN result
                          ELSE /\ _df[j].name \in DOMAIN result
                               /\ result[_df[j].name] = IntType(Least(widths))
            /\ \A col \in DOMAIN result : result[col] \in {"int8", "int16", "int32"}
            /\ _dataframe_has_been_analysed =>
                  Restrict(_all_possible_improvements, ColumnsOf(_df, "int64")) = result

\* An analysis that gave one int64 column int16 and another no entry.
C2_Witness ==
    /\ outcome.op = Identify
    /\ \E c1, c2 \in ColumnsOf(_df, "int64") :
          /\ c1 \in DOMAIN _all_possible_improvements
          /\ _all_possible_improvements[c1] = "int16"
          /\ Column(_df, c1).values[1] = FromInt(-32768)
          /\ c2 \notin DOMAIN _all_possible_improvements

\* C3: the string analyser gives a column the entry 'category' if and only if it is
\* an object column whose number of distinct values (missing values not counted) is
\* at most categorical_threshold; an analysis stores exactly these entries for the
\* object columns.
C3_CategoryIffDistinctCountWithinThreshold ==
    exists =>
        LET result == _check_if_strings_could_be_categorical(_df, _columns_by_type,
                                                             _categorical_threshold)
        IN  /\ DOMAIN result \subseteq ColumnsOf(_df, "object")
            /\ \A j \in 1..Len(_df) :
                  _df[j].name \in DOMAIN result <=>
                      /\ _df[j].dtype = "object"
                      /\ DistinctCount(_df[j].values) <= _categorical_threshold
            /\ \A col \in DOMAIN result : result[col] = "category"
            /\ _dataframe_has_been_analysed =>
                  Restrict(_all_possible_improvements, ColumnsOf(_df, "object")) = result

\* An analysis of one object column of exactly categorical_threshold distinct
\* values, which got the entry, and one of one more, which did not.
C3_Witness ==
    /\ outcome.op = Identify
    /\ \E c1, c2 \in ColumnsOf(_df, "object") :
          /\ DistinctCount(Column(_df, c1).values) = _categorical_threshold
          /\ c1 \in DOMAIN _all_possible_improvements
          /\ DistinctCount(Column(_df, c2).values) = _categorical_threshold + 1
          /\ c2 \notin DOMAIN _all_possible_improvements

\* C4: the float analyser returns the empty dict when float_size is 64, and
\* otherwise maps exactly the float64 columns, each to the float type of float_size,
\* whatever their values; an analysis stores exactly these entries for the float64
\* columns.
C4_FloatColumnsGetTheConfiguredWidth ==
    exists =>
        LET result == _flag_float_column_improvements(_columns_by_type, _float_size)
        IN  /\ _float_size = 64 => DOMAIN result = {}
            /\ _float_size # 64 =>
                  /\ DOMAIN result = ColumnsOf(_df, "float64")
                  /\ \A col \in DOMAIN result :
                        result[col] = IF _float_size = 16 THEN "float16" ELSE "float32"
            /\ _dataframe_has_been_analysed =>
                  Restrict(_all_possible_improvements, ColumnsOf(_df, "float64")) = result

\* An analysis with float_size 32 of a float64 column holding a value that float32
\* cannot hold.
C4_Witness ==
    /\ outcome.op = Identify
    /\ _float_size = 32
    /\ \E col \in ColumnsOf(_df, "float64") :
          /\ _all_possible_improvements[col] = "float32"
          /\ \E r \in 1..NRows :
                astype_float(Column(_df, col).values[r], 32) # Column(_df, col).values[r]

\* C5: a construction with a float_size other than 16, 32, 64 raises the ValueError
\* and leaves the caller without a checker; one with 16, 32 or 64 raises nothing and
\* gives the checker with that float_size; no method is ever called on a checker
\* whose float_size is not one of the three.
C5_InvalidFloatSizeGivesNoChecker ==
    /\ outcome.op = "__init__" =>
          IF outcome.float_size \in {16, 32, 64}
          THEN outcome.raised = NoException /\ exists /\ _float_size = outcome.float_size
          ELSE outcome.raised = ValueError /\ ~exists
    /\ outcome.op \in {Identify, Cast, "get_possible_dtypes"} => exists
    /\ exists => _float_size \in {16, 32, 64}
    /\ ~exists => ~_dataframe_has_been_analysed /\ lower_memory_df = <<>>

\* A construction with float_size 99.
C5_Witness ==
    /\ outcome.op = "__init__"
    /\ outcome.float_size = 99
    /\ outcome.raised = ValueError
    /\ ~exists

\* C6: the DataFrame a cast returns has the columns of the original in their order,
\* each column that is a key of the dict of improvements with the dtype of its
\* entry, each other column with the dtype and values it had.
C6_CastChangesExactlyTheRecommendedColumns ==
    outcome.op = Cast /\ outcome.raised = NoException =>
        /\ Len(lower_memory_df) = Len(_df)
        /\ \A j \in 1..Len(_df) :
              /\ lower_memory_df[j].name = _df[j].name
              /\ IF _df[j].name \in DOMAIN _all_possible_improvements
                 THEN lower_memory_df[j].dtype = _all_possible_improvements[_df[j].name]
                 ELSE lower_memory_df[j] = _df[j]

\* A cast that changed one column and kept an int64 column beyond 32 bits, an
\* object column above the threshold or a bool column.
C6_Witness ==
    /\ outcome.op = Cast
    /\ outcome.raised = NoException
    /\ \E i, j \in 1..Len(_df) :
          /\ _df[i].name \in DOMAIN _all_possible_improvements
          /\ lower_memory_df[i].dtype # _df[i].dtype
          /\ _df[j].name \notin DOMAIN _all_possible_improvements
          /\ lower_memory_df[j].dtype \in {"int64", "object", "bool"}

\* C7: in the DataFrame a cast returns, every value of a column cast to int8, int16
\* or int32, widened back to int64, is the original value, and every column cast to
\* category, read back as objects, is the original column.
C7_IntegerAndCategoryCastsRoundTrip ==
    outcome.op = Cast /\ outcome.raised = NoException =>
        \A j \in 1..Len(_df) :
            /\ lower_memory_df[j].dtype \in {"int8", "int16", "int32"} =>
                  \A r \in 1..Len(_df[j].values) :
                      FromInt(lower_memory_df[j].values[r]) = _df[j].values[r]
            /\ lower_memory_df[j].dtype = "category" =>
                  CategoryToObject(lower_memory_df[j].values) = _df[j].values

\* A cast of a column holding -128 and 127 to int8 together with one of a column
\* with a missing value to category.
C7_Witness ==
    /\ outcome.op = Cast
    /\ outcome.raised = NoException
    /\ \E i, j \in 1..Len(_df) :
          /\ lower_memory_df[i].dtype = "int8"
          /\ \E r \in 1..NRows : lower_memory_df[i].values[r] = -128
          /\ \E r \in 1..NRows : lower_memory_df[i].values[r] = 127
          /\ lower_memory_df[j].dtype = "category"
          /\ \E r \in 1..NRows : lower_memory_df[j].values.codes[r] = -1
          /\ \E r \in 1..NRows : lower_memory_df[j].values.codes[r] = 0

\* C8: a call of cast_dataframe_to_lower_memory_version, raising or not, or of
\* get_possible_dtypes leaves the caller's DataFrame and every attribute of the
\* checker as they were.
C8_CastAndGetLeaveTheCheckerUnchanged ==
    [][outcome'.op \in {Cast, "get_possible_dtypes"} => UNCHANGED <<df, exists, self>>]_vars

\* A dict returned by get_possible_dtypes from a checker that was not analysed.
C8_Witness ==
    /\ outcome.op = "get_possible_dtypes"
    /\ ~outcome.was_analysed
    /\ ~_dataframe_has_been_analysed
    /\ possible_dtypes = EmptyDict
    /\ Len(_df) > 0

\* C9: identify_possible_improvements leaves the analysed flag true; called on an
\* analysed checker it leaves the dict of improvements as it was; the dict after a
\* call holds exactly the entries of the three analysers, whose key sets are
\* pairwise disjoint, whatever the order they are merged in.
C9_AnalysisIsIdempotentAndAUnion ==
    [][outcome'.op = Identify =>
          LET f == _flag_float_column_improvements(_columns_by_type, _float_size)
              i == _check_if_integer_sizes_can_be_reduced(_df, _columns_by_type)
              c == _check_if_strings_could_be_categorical(_df, _columns_by_type,
                                                          _categorical_threshold)
          IN  /\ _dataframe_has_been_analysed'
              /\ _dataframe_has_been_analysed =>
                    _all_possible_improvements' = _all_possible_improvements
              /\ DOMAIN f \cap DOMAIN i = {}
              /\ DOMAIN f \cap DOMAIN c = {}
              /\ DOMAIN i \cap DOMAIN c = {}
              /\ DOMAIN _all_possible_improvements' = DOMAIN f \cup DOMAIN i \cup DOMAIN c
              /\ \A k \in DOMAIN f : _all_possible_improvements'[k] = f[k]
              /\ \A k \in DOMAIN i : _all_possible_improvements'[k] = i[k]
              /\ \A k \in DOMAIN c : _all_possible_improvements'[k] = c[k]
              /\ _all_possible_improvements' = update(update(c, i), f)]_vars

\* A second analysis of a checker whose three analysers all found something.
C9_Witness ==
    /\ outcome.op = Identify
    /\ outcome.was_analysed
    /\ \E k1, k2, k3 \in DOMAIN _all_possible_improvements :
          /\ _all_possible_improvements[k1] = "float16"
          /\ _all_possible_improvements[k2] = "int8"
          /\ _all_possible_improvements[k3] = "category"

\* The failures the code can raise.
Failures == {ValueError, NotAnalysedWarning, NoImprovementsWarning}

\* C10 as stated: the exception a call raises is of a kind none of the other
\* failures has.
C10_FailureKindsPairwiseDistinct ==
    outcome.raised # NoException =>
        \A other \in Failures \ {outcome.raised} : other.exc # outcome.raised.exc

\* C10, amended: the constructor raises a ValueError exactly for an invalid
\* float_size; a cast raises a UserWarning exactly when the checker is not analysed
\* or has no improvements, and the two cases differ in the message, not in the kind;
\* a call that raises returns nothing, and no other call raises.
C10_TwoKindsAndThreeMessages ==
    /\ outcome.raised \in Failures \cup {NoException}
    /\ outcome.raised = ValueError <=>
          outcome.op = "__init__" /\ outcome.float_size \notin {16, 32, 64}
    /\ outcome.raised = NotAnalysedWarning <=>
          outcome.op = Cast /\ ~outcome.was_analysed
    /\ outcome.raised = NoImprovementsWarning <=>
          outcome.op = Cast /\ outcome.was_analysed /\ DOMAIN _all_possible_improvements = {}
    /\ outcome.raised.exc = "ValueError" <=> outcome.raised = ValueError
    /\ outcome.raised.exc = "UserWarning" <=>
          outcome.raised \in {NotAnalysedWarning, NoImprovementsWarning}
    /\ NotAnalysedWarning.msg # NoImprovementsWarning.msg
    /\ outcome.raised # NoException => lower_memory_df = <<>> /\ possible_dtypes = EmptyDict

\* A cast of a checker not analysed: its exception has the kind of the other cast failure.
C10_Witness ==
    /\ outcome.op = Cast
    /\ outcome.raised = NotAnalysedWarning
    /\ outcome.raised.exc = NoImprovementsWarning.exc

====
